---- MODULE Spec2Model ----
(***************************************************************************)
(* A model of playwright_recaptcha.recaptchav2.sync_solver.SyncSolver.     *)
(*                                                                         *)
(* The solver is one synchronous caller.  Every Playwright call it makes   *)
(* yields to the event dispatcher, so a step of the page (the reCAPTCHA    *)
(* widget) or the dispatch of a "response" event to the page's listeners   *)
(* can happen between any two of its calls, and never between two          *)
(* statements that make no call (reading is_checked() and returning        *)
(* self.token is one step).  Each action of the caller holds one such call.*)
(*                                                                         *)
(* The page is the environment.  It is modelled as the widget behaves:     *)
(* a click on the checkbox or on Verify starts a verification that the     *)
(* widget resolves later; the checkbox becomes checked only when a         *)
(* verification succeeds, and the userverify response of that verification *)
(* is dispatched to the listeners at some later moment.                    *)
(***************************************************************************)
EXTENDS Integers, Sequences, FiniteSets, Bags

VARIABLES
    listeners,    \* handlers registered on the page for the "response" event
    token,        \* self.token
    ctorRetries,  \* self._retries
    inWith,       \* the `with SyncSolver(page) as solver:` block is still open
    calls,        \* number of solve_recaptcha calls made so far
    closeErr,     \* exception that escaped a close() call ("none" if none did)
    pc,           \* position of the caller inside solve_recaptcha ("idle": no call)
    argRetries,   \* the retries argument of the current call
    effective,    \* value of the local `retries` after line 221
    retries,      \* the local `retries`
    outcome,      \* how the last call ended ("none" while running)
    result,       \* the value the last call returned
    lastRead,     \* last value of recaptcha_checkbox.is_checked() read by the call
    attempts,     \* audio attempts started by the call (passes of the loop body)
    failed,       \* attempts after which line 238 read the checkbox unchecked
    newClicks,    \* clicks on "Get a new challenge" made by the call
    rateSeen,     \* a poll of the call saw "Try again later" (and no break condition)
    op,           \* the operation that produced the current state
    lastResp,     \* the response dispatched last
    suspended,    \* bag of the responses whose handlers wait in response.text(),
                  \* line 83: one copy for each waiting handler
    hasRecaptcha, \* the page holds a reCAPTCHA frame and checkbox
    checked,      \* the widget's checkbox is checked
    pending,      \* verification or challenge load the widget has not resolved yet
    visible,      \* texts and buttons of the challenge popup that are visible
    inflight      \* userverify responses of the widget not dispatched yet

vars == <<listeners, token, ctorRetries, inWith, calls, closeErr, pc, argRetries,
          effective, retries, outcome, result, lastRead, attempts, failed,
          newClicks, rateSeen, op, lastResp, suspended, hasRecaptcha, checked,
          pending, visible, inflight>>

solverVars == <<token, ctorRetries, suspended>>
callVars == <<pc, argRetries, effective, retries, outcome, result, lastRead,
              attempts, failed, newClicks, rateSeen>>
pageVars == <<hasRecaptcha, checked, pending, visible, inflight>>

----------------------------------------------------------------------------
(* Bounds and program constants *)

MaxRetries == 2
MaxCalls == 2
MaxSuspended == 2
DefaultRetries == 3

----------------------------------------------------------------------------
(* Optional values: Python's None and a present value *)

None == [some |-> FALSE, val |-> <<>>]
Some(v) == [some |-> TRUE, val |-> v]

NoArg == [given |-> FALSE, val |-> 0]
Arg(k) == [given |-> TRUE, val |-> k]

----------------------------------------------------------------------------
(* Responses.  A URL and a body are sequences of lexical pieces: "/" and   *)
(* the words between slashes for a URL; the double quote Q, the line break *)
(* NL, the comma and runs of other characters for a body.                  *)

Q == "dquote"
NL == "newline"

Host == "https://www.google.com"

UrlApi2 == <<Host, "/", "recaptcha", "/", "api2", "/", "userverify?k=6L">>
UrlEnterprise == <<Host, "/", "recaptcha", "/", "enterprise", "/", "userverify">>
UrlReload == <<Host, "/", "recaptcha", "/", "api2", "/", "reload?k=6L">>
UrlNoApi == <<Host, "/", "recaptcha", "/", "userverify">>
UrlProxied == <<"https://example.com", "/", "proxy", "/", "recaptcha", "/",
                "enterprise", "/", "userverify">>
UrlApi3 == <<Host, "/", "recaptcha", "/", "api3", "/", "userverify">>

Urls == {UrlApi2, UrlEnterprise, UrlReload, UrlNoApi, UrlProxied, UrlApi3}

BodyToken == <<")]}'", NL, "[", Q, "uvresp", Q, ",", Q, "03AGdBq", Q, ",", "1", "]">>
BodyEmptyToken == <<"[", Q, "uvresp", Q, ",", Q, Q, "]">>
BodyRresp == <<"[", Q, "rresp", Q, ",", Q, "03AGdBq", Q, "]">>
BodyEmpty == <<>>
BodyBrokenThenToken == <<"[", Q, "uvresp", Q, ",", Q, "03A", NL, "x", Q, ",", Q,
                         "uvresp", Q, ",", Q, "09XyZ", Q, "]">>
BodyUnterminated == <<"[", Q, "uvresp", Q, ",", Q, "03AGdBq">>
BodyLazy == <<Q, "uvresp", Q, ",", Q, "a", ",", "b", Q, "tail", Q>>

Bodies == {BodyToken, BodyEmptyToken, BodyRresp, BodyEmpty, BodyBrokenThenToken,
           BodyUnterminated, BodyLazy}

\* The response the widget's userverify request gets after a successful verification.
UvResponse == [url |-> UrlApi2, body |-> BodyToken]

\* The test of the URL (line 80) and the search of the body (line 83) do not
\* depend on each other: every URL comes with the body of UvResponse, every
\* body with its URL, and the enterprise URL with one more body.
Responses ==
    {r \in [url : Urls, body : Bodies] :
        \/ r.url = UvResponse.url
        \/ r.body = UvResponse.body
        \/ (r.url = UrlEnterprise /\ r.body = BodyLazy)}

\* Words that begin with the characters "userverify".
UserverifyPrefixed == {"userverify", "userverify?k=6L"}

\* re.search("/recaptcha/(api2|enterprise)/userverify", url) is not None
UrlMatches(url) ==
    \E i \in 1..Len(url) :
        /\ i + 5 <= Len(url)
        /\ url[i] = "/"
        /\ url[i + 1] = "recaptcha"
        /\ url[i + 2] = "/"
        /\ url[i + 3] \in {"api2", "enterprise"}
        /\ url[i + 4] = "/"
        /\ url[i + 5] \in UserverifyPrefixed

\* The pieces of the literal "uvresp"," that opens the pattern of line 83.
UvKey == <<Q, "uvresp", Q, ",", Q>>

KeyAt(body, i) ==
    /\ i + Len(UvKey) - 1 <= Len(body)
    /\ \A k \in 1..Len(UvKey) : body[i + k - 1] = UvKey[k]

\* Positions at or after `from` holding a quote or a line break: (.*?) stops at
\* the first quote and "." matches no line break.
Stops(body, from) == {j \in from..Len(body) : body[j] \in {Q, NL}}

FirstStop(body, from) ==
    CHOOSE j \in Stops(body, from) : \A k \in Stops(body, from) : j <= k

\* The pattern of line 83 matches starting at piece i.
MatchAt(body, i) ==
    /\ KeyAt(body, i)
    /\ Stops(body, i + Len(UvKey)) # {}
    /\ body[FirstStop(body, i + Len(UvKey))] = Q

MatchStarts(body) == {i \in 1..Len(body) : MatchAt(body, i)}

\* re.search(r'"uvresp","(.*?)"', text): group(1) of the leftmost match, or None.
TokenMatch(body) ==
    IF MatchStarts(body) = {}
    THEN None
    ELSE LET i == CHOOSE m \in MatchStarts(body) : \A n \in MatchStarts(body) : m <= n
             from == i + Len(UvKey)
         IN  Some(SubSeq(body, from, FirstStop(body, from) - 1))

\* _extract_token assigning the match's value without testing the match.
extract_token_unguarded(tok, response) ==
    IF ~UrlMatches(response.url) THEN tok ELSE TokenMatch(response.body)

\* SyncSolver._extract_token: the value of self.token after the handler ran
\* from its first line to its last.
extract_token(tok, response) ==
    IF ~UrlMatches(response.url)
    THEN tok
    ELSE IF TokenMatch(response.body).some
         THEN TokenMatch(response.body)
         ELSE tok


----------------------------------------------------------------------------
(* The listeners of the page's "response" event.  Playwright keeps them    *)
(* keyed by handler: registering a handler again keeps one registration,   *)
(* and removing a handler that is not registered raises KeyError.          *)

Handler == "_extract_token"
UserHandler == "user_handler"

\* The handler registered for another event: "response" gets no listener.
AddListenerWrongEvent(ls) == ls

\* self._page.on("response", self._extract_token), line 220
AddListener(ls) == ls \cup {Handler}

\* self._page.remove_listener("response", self._extract_token), line 197
RemoveListener(ls) ==
    IF Handler \in ls
    THEN [err |-> "none", listeners |-> ls \ {Handler}]
    ELSE [err |-> "KeyError", listeners |-> ls]

\* close() removing the listener of another event: nothing is removed.
closeWrongEvent(ls) == [err |-> "none", listeners |-> ls]

\* close() without its except clause.
closeNoCatch(ls) == RemoveListener(ls)

\* SyncSolver.close: the listeners it leaves and the exception that escapes it.
close(ls) ==
    LET r == RemoveListener(ls)
    IN  IF r.err = "KeyError"
        THEN [err |-> "none", listeners |-> r.listeners]
        ELSE r

\* The page emits a "response" event: the handlers waiting in response.text()
\* afterwards.  _extract_token runs if it is registered; it returns at line 81
\* for a URL that does not match and calls response.text() at line 83 otherwise.
Dispatch(ls, susp, response) ==
    IF Handler \in ls /\ UrlMatches(response.url)
    THEN susp (+) SetToBag({response})
    ELSE susp

----------------------------------------------------------------------------
(* The decisions of solve_recaptcha and of its helpers *)

\* retries = retries or self._retries, line 221
EffectiveRetries(arg, default) ==
    IF arg.given /\ arg.val # 0 THEN arg.val ELSE default

\* The loop test off by one.
LoopCondOffByOne(r) == r >= 0

\* while retries > 0, line 231
LoopCond(r) == r > 0

\* retries -= 1, line 242
Decrement(r) == r - 1

\* get_recaptcha_frame / get_recaptcha_checkbox, lines 224-225
get_recaptcha_frame(has) == IF has THEN "found" ELSE "RecaptchaNotFoundError"

\* if ...("Press PLAY to listen").is_visible(): break, lines 115-116
AudioPlayOutcome(vis) == IF "press_play" \in vis THEN "break" ELSE "next"

\* The polling loop of _get_audio_url without its rate-limit test.
AudioLimitIgnored(vis) == "wait"

\* if ...("Try again later").is_visible(): raise, else wait: lines 118-121
AudioLimitOutcome(vis) == IF "try_again" \in vis THEN "raise" ELSE "wait"

\* The first operand of the test of lines 181-186: the text "Multiple correct
\* solutions required - please solve more." is visible.
SubmitMultipleOutcome(vis) == IF "multiple" \in vis THEN "break" ELSE "next"

\* The second operand, read only when the first is false: line 185
SubmitCheckedOutcome(isChecked) == IF isChecked THEN "break" ELSE "next"

\* The polling loop of _submit_audio_text taking "Try again later" for a failed
\* attempt, which the retry loop then repeats.
SubmitLimitAsFailure(vis) == IF "try_again" \in vis THEN "break" ELSE "wait"

\* The polling loop of _submit_audio_text without its rate-limit test.
SubmitLimitIgnored(vis) == "wait"

\* if ...("Try again later").is_visible(): raise, else wait: lines 189-192
SubmitLimitOutcome(vis) == IF "try_again" \in vis THEN "raise" ELSE "wait"

\* The function without its early return.
FirstOutcomeNoReturn(isChecked) == "continue"

\* if recaptcha_checkbox.is_checked(): return self.token, lines 228-229
FirstOutcome(isChecked) == IF isChecked THEN "returned" ELSE "continue"

\* The loop without its break.
AttemptOutcomeNoBreak(isChecked) == "retry"

\* if recaptcha_checkbox.is_checked(): break, lines 238-239
AttemptOutcome(isChecked) == IF isChecked THEN "break" ELSE "retry"

\* The function without its final test.
FinalOutcomeNoTest(isChecked) == "returned"

\* if not recaptcha_checkbox.is_checked(): raise RecaptchaSolveError, lines 244-247
FinalOutcome(isChecked) == IF ~isChecked THEN "RecaptchaSolveError" ELSE "returned"

Read(isChecked) == IF isChecked THEN "checked" ELSE "unchecked"

NoResponse == [url |-> <<>>, body |-> <<>>]

\* A response other than the widget's own that the page receives during a run:
\* another userverify response, of the enterprise API.
Traffic == {[url |-> UrlEnterprise, body |-> BodyLazy]}

\* Values of the constructor's `retries`, its default among them.
RetryValues == {0, 1, DefaultRetries}
Args == {NoArg} \cup {Arg(k) : k \in 0..MaxRetries}

----------------------------------------------------------------------------
Init ==
    /\ listeners = {UserHandler}
    /\ token = None
    /\ ctorRetries \in RetryValues
    /\ inWith = TRUE
    /\ calls = 0
    /\ closeErr = "none"
    /\ pc = "idle"
    /\ argRetries = NoArg
    /\ effective = 0
    /\ retries = 0
    /\ outcome = "none"
    /\ result = None
    /\ lastRead = "none"
    /\ attempts = 0
    /\ failed = 0
    /\ newClicks = 0
    /\ rateSeen = FALSE
    /\ op = "init"
    /\ lastResp = NoResponse
    /\ suspended = EmptyBag
    /\ hasRecaptcha \in BOOLEAN
    /\ checked = FALSE
    /\ pending = "none"
    /\ visible = {}
    /\ inflight = 0

\* The call ends: it returns `res` or raises `out`.
EndCall(out, res) ==
    /\ pc' = "idle"
    /\ outcome' = out
    /\ result' = res

\* solve_recaptcha is entered: lines 220-221.  The solver is used inside its
\* with block; once the block is left it is not called again.
SolveCall(arg) ==
    /\ pc = "idle"
    /\ inWith
    /\ calls < MaxCalls
    /\ calls' = calls + 1
    /\ listeners' = AddListener(listeners)
    /\ argRetries' = arg
    /\ effective' = EffectiveRetries(arg, ctorRetries)
    /\ retries' = EffectiveRetries(arg, ctorRetries)
    /\ pc' = "load"
    /\ outcome' = "none"
    /\ result' = None
    /\ lastRead' = "none"
    /\ attempts' = 0
    /\ failed' = 0
    /\ newClicks' = 0
    /\ rateSeen' = FALSE
    /\ op' = "SolveCall"
    /\ UNCHANGED <<solverVars, inWith, closeErr, lastResp, pageVars>>

\* wait_for_load_state and the lookup of the frame and checkbox: lines 223-225
Locate ==
    /\ pc = "load"
    /\ IF get_recaptcha_frame(hasRecaptcha) = "found"
       THEN pc' = "click_checkbox" /\ UNCHANGED <<outcome, result>>
       ELSE EndCall("RecaptchaNotFoundError", None)
    /\ op' = "Locate"
    /\ UNCHANGED <<listeners, solverVars, inWith, calls, closeErr, argRetries,
                   effective, retries, lastRead, attempts, failed, newClicks,
                   rateSeen, lastResp, pageVars>>

\* recaptcha_checkbox.click(): line 226
ClickCheckbox ==
    /\ pc = "click_checkbox"
    /\ pc' = "first_check"
    /\ IF ~checked /\ pending = "none"
       THEN pending' = "checkbox" /\ visible' = {}
       ELSE UNCHANGED <<pending, visible>>
    /\ op' = "ClickCheckbox"
    /\ UNCHANGED <<listeners, solverVars, inWith, calls, closeErr, argRetries,
                   effective, retries, outcome, result, lastRead, attempts, failed,
                   newClicks, rateSeen, lastResp, hasRecaptcha, checked, inflight>>

\* lines 228-229
FirstCheck ==
    /\ pc = "first_check"
    /\ lastRead' = Read(checked)
    /\ IF FirstOutcome(checked) = "returned"
       THEN EndCall("returned", token)
       ELSE pc' = "loop" /\ UNCHANGED <<outcome, result>>
    /\ op' = "FirstCheck"
    /\ UNCHANGED <<listeners, solverVars, inWith, calls, closeErr, argRetries,
                   effective, retries, attempts, failed, newClicks, rateSeen,
                   lastResp, pageVars>>

\* The loop test and the first delay: lines 231-232
LoopHead ==
    /\ pc = "loop"
    /\ IF LoopCond(retries)
       THEN pc' = "get_audio" /\ attempts' = attempts + 1
       ELSE pc' = "final" /\ UNCHANGED attempts
    /\ op' = "LoopHead"
    /\ UNCHANGED <<listeners, solverVars, inWith, calls, closeErr, argRetries,
                   effective, retries, outcome, result, lastRead, failed,
                   newClicks, rateSeen, lastResp, pageVars>>

\* audio_challenge_button.is_visible(): lines 107-111
ReadAudioButton ==
    /\ pc = "get_audio"
    /\ pc' = IF "audio_button" \in visible THEN "click_audio" ELSE "poll_audio"
    /\ op' = "ReadAudioButton"
    /\ UNCHANGED <<listeners, solverVars, inWith, calls, closeErr, argRetries,
                   effective, retries, outcome, result, lastRead, attempts, failed,
                   newClicks, rateSeen, lastResp, pageVars>>

\* audio_challenge_button.click(): line 112
ClickAudioButton ==
    /\ pc = "click_audio"
    /\ pc' = "poll_audio"
    /\ pending' = "audio"
    /\ visible' = {}
    /\ op' = "ClickAudioButton"
    /\ UNCHANGED <<listeners, solverVars, inWith, calls, closeErr, argRetries,
                   effective, retries, outcome, result, lastRead, attempts, failed,
                   newClicks, rateSeen, lastResp, hasRecaptcha, checked, inflight>>

\* The first read of a pass of the polling loop of _get_audio_url: lines 115-116
PollPressPlay ==
    /\ pc = "poll_audio"
    /\ pc' = IF AudioPlayOutcome(visible) = "break" THEN "read_href"
             ELSE "poll_audio_limit"
    /\ op' = "PollPressPlay"
    /\ UNCHANGED <<listeners, solverVars, inWith, calls, closeErr, argRetries,
                   effective, retries, outcome, result, lastRead, attempts, failed,
                   newClicks, rateSeen, lastResp, pageVars>>

\* The second read of the pass: lines 118-119
PollAudioRateLimit ==
    /\ pc = "poll_audio_limit"
    /\ rateSeen' = (rateSeen \/ "try_again" \in visible)
    /\ IF AudioLimitOutcome(visible) = "raise"
       THEN EndCall("RecaptchaRateLimitError", None)
       ELSE pc' = "poll_audio_wait" /\ UNCHANGED <<outcome, result>>
    /\ op' = "PollAudioRateLimit"
    /\ UNCHANGED <<listeners, solverVars, inWith, calls, closeErr, argRetries,
                   effective, retries, lastRead, attempts, failed, newClicks,
                   lastResp, pageVars>>

\* self._page.wait_for_timeout(100): line 121
PollAudioWait ==
    /\ pc = "poll_audio_wait"
    /\ pc' = "poll_audio"
    /\ op' = "PollAudioWait"
    /\ UNCHANGED <<listeners, solverVars, inWith, calls, closeErr, argRetries,
                   effective, retries, outcome, result, lastRead, attempts, failed,
                   newClicks, rateSeen, lastResp, pageVars>>

\* The read of the link of the audio file: lines 123-125
ReadAudioUrl ==
    /\ pc = "read_href"
    /\ pc' = "convert"
    /\ op' = "ReadAudioUrl"
    /\ UNCHANGED <<listeners, solverVars, inWith, calls, closeErr, argRetries,
                   effective, retries, outcome, result, lastRead, attempts, failed,
                   newClicks, rateSeen, lastResp, pageVars>>

\* _convert_audio_to_text and the second delay: lines 234-235.  The download,
\* the decoding and the speech service either give a text or raise.
ConvertAudio ==
    /\ pc = "convert"
    /\ \E ok \in BOOLEAN :
          IF ok
          THEN pc' = "submit" /\ UNCHANGED <<outcome, result>>
          ELSE EndCall("Exception", None)
    /\ op' = "ConvertAudio"
    /\ UNCHANGED <<listeners, solverVars, inWith, calls, closeErr, argRetries,
                   effective, retries, lastRead, attempts, failed, newClicks,
                   rateSeen, lastResp, pageVars>>

\* The textbox is filled: line 177
FillAudioText ==
    /\ pc = "submit"
    /\ pc' = "click_verify"
    /\ op' = "FillAudioText"
    /\ UNCHANGED <<listeners, solverVars, inWith, calls, closeErr, argRetries,
                   effective, retries, outcome, result, lastRead, attempts, failed,
                   newClicks, rateSeen, lastResp, pageVars>>

\* The Verify button is clicked: line 178
ClickVerify ==
    /\ pc = "click_verify"
    /\ pc' = "poll_submit"
    /\ pending' = "verify"
    /\ op' = "ClickVerify"
    /\ UNCHANGED <<listeners, solverVars, inWith, calls, closeErr, argRetries,
                   effective, retries, outcome, result, lastRead, attempts, failed,
                   newClicks, rateSeen, lastResp, hasRecaptcha, checked, visible,
                   inflight>>

\* The first read of a pass of the polling loop of _submit_audio_text: lines 182-184
PollMultiple ==
    /\ pc = "poll_submit"
    /\ pc' = IF SubmitMultipleOutcome(visible) = "break" THEN "check"
             ELSE "poll_submit_checked"
    /\ op' = "PollMultiple"
    /\ UNCHANGED <<listeners, solverVars, inWith, calls, closeErr, argRetries,
                   effective, retries, outcome, result, lastRead, attempts, failed,
                   newClicks, rateSeen, lastResp, pageVars>>

\* The second read of the pass: line 185
PollChecked ==
    /\ pc = "poll_submit_checked"
    /\ lastRead' = Read(checked)
    /\ pc' = IF SubmitCheckedOutcome(checked) = "break" THEN "check"
             ELSE "poll_submit_limit"
    /\ op' = "PollChecked"
    /\ UNCHANGED <<listeners, solverVars, inWith, calls, closeErr, argRetries,
                   effective, retries, outcome, result, attempts, failed,
                   newClicks, rateSeen, lastResp, pageVars>>

\* The third read of the pass: lines 189-190
PollSubmitRateLimit ==
    /\ pc = "poll_submit_limit"
    /\ rateSeen' = (rateSeen \/ "try_again" \in visible)
    /\ CASE SubmitLimitOutcome(visible) = "raise" ->
                EndCall("RecaptchaRateLimitError", None)
         [] SubmitLimitOutcome(visible) = "break" ->
                pc' = "check" /\ UNCHANGED <<outcome, result>>
         [] OTHER -> pc' = "poll_submit_wait" /\ UNCHANGED <<outcome, result>>
    /\ op' = "PollSubmitRateLimit"
    /\ UNCHANGED <<listeners, solverVars, inWith, calls, closeErr, argRetries,
                   effective, retries, lastRead, attempts, failed, newClicks,
                   lastResp, pageVars>>

\* self._page.wait_for_timeout(100): line 192
PollSubmitWait ==
    /\ pc = "poll_submit_wait"
    /\ pc' = "poll_submit"
    /\ op' = "PollSubmitWait"
    /\ UNCHANGED <<listeners, solverVars, inWith, calls, closeErr, argRetries,
                   effective, retries, outcome, result, lastRead, attempts, failed,
                   newClicks, rateSeen, lastResp, pageVars>>

\* lines 238-239
CheckAfterSubmit ==
    /\ pc = "check"
    /\ lastRead' = Read(checked)
    /\ failed' = IF checked THEN failed ELSE failed + 1
    /\ IF AttemptOutcome(checked) = "break"
       THEN pc' = "final"
       ELSE pc' = "new_challenge"
    /\ op' = "CheckAfterSubmit"
    /\ UNCHANGED <<listeners, solverVars, inWith, calls, closeErr, argRetries,
                   effective, retries, outcome, result, attempts, newClicks,
                   rateSeen, lastResp, pageVars>>

\* lines 241-242
ClickNewChallenge ==
    /\ pc = "new_challenge"
    /\ pc' = "loop"
    /\ newClicks' = newClicks + 1
    /\ retries' = Decrement(retries)
    /\ visible' = {"press_play"}
    /\ op' = "ClickNewChallenge"
    /\ UNCHANGED <<listeners, solverVars, inWith, calls, closeErr, argRetries,
                   effective, outcome, result, lastRead, attempts, failed, rateSeen,
                   lastResp, hasRecaptcha, checked, pending, inflight>>

\* lines 244-247
FinalCheck ==
    /\ pc = "final"
    /\ lastRead' = Read(checked)
    /\ IF FinalOutcome(checked) = "returned"
       THEN EndCall("returned", token)
       ELSE EndCall(FinalOutcome(checked), None)
    /\ op' = "FinalCheck"
    /\ UNCHANGED <<listeners, solverVars, inWith, calls, closeErr, argRetries,
                   effective, retries, attempts, failed, newClicks, rateSeen,
                   lastResp, pageVars>>

\* solver.close() called by the user of the solver: lines 194-199
Close ==
    /\ pc = "idle"
    /\ listeners' = close(listeners).listeners
    /\ closeErr' = close(listeners).err
    /\ op' = "Close"
    /\ UNCHANGED <<solverVars, inWith, calls, callVars, lastResp, pageVars>>

\* The with block is left, normally or by an exception: __exit__, lines 64-65
ExitWith ==
    /\ pc = "idle"
    /\ inWith
    /\ inWith' = FALSE
    /\ listeners' = close(listeners).listeners
    /\ closeErr' = close(listeners).err
    /\ op' = "ExitWith"
    /\ UNCHANGED <<solverVars, calls, callVars, lastResp, pageVars>>

----------------------------------------------------------------------------
(* The page *)

\* The widget resolves what a click started.
PageResolve ==
    /\ pending # "none"
    /\ pending' = "none"
    /\ \/ /\ pending \in {"checkbox", "verify"}
          /\ checked' = TRUE
          /\ visible' = {}
          /\ inflight' = inflight + 1
       \/ /\ pending = "checkbox"
          /\ visible' = {"audio_button"}
          /\ UNCHANGED <<checked, inflight>>
       \/ /\ pending = "audio"
          /\ visible' = {"press_play"}
          /\ UNCHANGED <<checked, inflight>>
       \/ /\ pending = "verify"
          /\ visible' = {"press_play", "multiple"}
          /\ UNCHANGED <<checked, inflight>>
       \/ /\ pending \in {"audio", "verify"}
          /\ visible' = {"try_again"}
          /\ UNCHANGED <<checked, inflight>>
    /\ op' = "PageResolve"
    /\ UNCHANGED <<listeners, solverVars, inWith, calls, closeErr, callVars,
                   lastResp, hasRecaptcha>>

\* The userverify response of the widget is dispatched to the listeners:
\* _extract_token runs up to its call of response.text(), lines 80-83.  That
\* call yields, so the caller of the solver runs on before the handler ends.
DeliverUserverify ==
    /\ inflight > 0
    /\ BagCardinality(Dispatch(listeners, suspended, UvResponse)) <= MaxSuspended
    /\ inflight' = inflight - 1
    /\ suspended' = Dispatch(listeners, suspended, UvResponse)
    /\ lastResp' = UvResponse
    /\ op' = "DeliverUserverify"
    /\ UNCHANGED <<listeners, token, ctorRetries, inWith, calls, closeErr, callVars,
                   hasRecaptcha, checked, pending, visible>>

\* Another response of the page is dispatched to the listeners: lines 80-83.
Deliver(response) ==
    /\ BagCardinality(Dispatch(listeners, suspended, response)) <= MaxSuspended
    /\ suspended' = Dispatch(listeners, suspended, response)
    /\ lastResp' = response
    /\ op' = "Deliver"
    /\ UNCHANGED <<listeners, token, ctorRetries, inWith, calls, closeErr, callVars,
                   pageVars>>

\* response.text() returns to a waiting handler, which ends: lines 83-86.
\* Nothing the handler does depends on its still being registered.
HandlerReturns(response) ==
    /\ BagIn(response, suspended)
    /\ suspended' = suspended (-) SetToBag({response})
    /\ token' = extract_token(token, response)
    /\ lastResp' = response
    /\ op' = "HandlerReturns"
    /\ UNCHANGED <<listeners, ctorRetries, inWith, calls, closeErr, callVars,
                   pageVars>>

Next ==
    \/ \E arg \in Args : SolveCall(arg)
    \/ Locate
    \/ ClickCheckbox
    \/ FirstCheck
    \/ LoopHead
    \/ ReadAudioButton
    \/ ClickAudioButton
    \/ PollPressPlay
    \/ PollAudioRateLimit
    \/ PollAudioWait
    \/ ReadAudioUrl
    \/ ConvertAudio
    \/ FillAudioText
    \/ ClickVerify
    \/ PollMultiple
    \/ PollChecked
    \/ PollSubmitRateLimit
    \/ PollSubmitWait
    \/ CheckAfterSubmit
    \/ ClickNewChallenge
    \/ FinalCheck
    \/ Close
    \/ ExitWith
    \/ PageResolve
    \/ DeliverUserverify
    \/ \E response \in Traffic : Deliver(response)
    \/ \E response \in Traffic \cup {UvResponse} : HandlerReturns(response)

Spec == Init /\ [][Next]_vars

----------------------------------------------------------------------------
(* _extract_token on its own: solve_recaptcha has registered the listener  *)
(* (line 220) and is waiting for the page to load while responses of every *)
(* shape arrive.                                                           *)

InitExtract ==
    /\ listeners \in {{Handler}, {Handler, UserHandler}}
    /\ token = None
    /\ ctorRetries \in RetryValues
    /\ inWith = TRUE
    /\ calls = 1
    /\ closeErr = "none"
    /\ pc = "load"
    /\ argRetries = NoArg
    /\ effective = ctorRetries
    /\ retries = ctorRetries
    /\ outcome = "none"
    /\ result = None
    /\ lastRead = "none"
    /\ attempts = 0
    /\ failed = 0
    /\ newClicks = 0
    /\ rateSeen = FALSE
    /\ op = "SolveCall"
    /\ lastResp = NoResponse
    /\ suspended = EmptyBag
    /\ hasRecaptcha = TRUE
    /\ checked = FALSE
    /\ pending = "none"
    /\ visible = {}
    /\ inflight = 0

NextExtract ==
    \/ \E response \in Responses : Deliver(response)
    \/ \E response \in Responses : HandlerReturns(response)

SpecExtract == InitExtract /\ [][NextExtract]_vars

----------------------------------------------------------------------------
(* Properties *)

RateLimit == "RecaptchaRateLimitError"
SolveError == "RecaptchaSolveError"

\* C1: with an effective retry count N >= 1 a call starts at most N audio
\* attempts, and a call whose N attempts all left the checkbox unchecked ends
\* by raising RecaptchaSolveError.
C1_AtMostNAttempts ==
    effective >= 1 =>
        /\ attempts <= effective
        /\ (pc = "idle" /\ failed = effective) =>
               (outcome = SolveError /\ attempts = effective)

C1_Witness ==
    /\ pc = "idle"
    /\ effective = 2
    /\ attempts = 2
    /\ failed = 2
    /\ outcome = SolveError

\* C2: whenever solve_recaptcha returns normally, the value it returns is a
\* token string and not None.
C2_ReturnsToken == outcome = "returned" => result.some

\* C3: a poll that sees "Try again later" ends the call at once with
\* RecaptchaRateLimitError: no attempt is started, "Get a new challenge" is not
\* clicked and the remaining retries are left unused.
C3_RateLimitEndsCall ==
    [][(\/ /\ pc = "poll_audio_limit"
           /\ op' = "PollAudioRateLimit"
           /\ "try_again" \in visible
        \/ /\ pc = "poll_submit_limit"
           /\ op' = "PollSubmitRateLimit"
           /\ "try_again" \in visible)
       => /\ pc' = "idle"
          /\ outcome' = RateLimit
          /\ attempts' = attempts
          /\ newClicks' = newClicks
          /\ retries' = retries]_vars

C3_Witness ==
    /\ pc = "idle"
    /\ outcome = RateLimit
    /\ op = "PollAudioRateLimit"
    /\ retries = 2
    /\ newClicks = 0

\* C4 as stated: the call ends on rate-limiting only when no retry is left
\* for another attempt.
C4_RetriesOnRateLimit == outcome = RateLimit => retries <= 1

\* C4 as amended: rate-limiting is not retried.  Once a poll has seen "Try
\* again later" the call has ended with RecaptchaRateLimitError, and the
\* retries that remained are unused; a further attempt is started only after
\* an attempt that left the checkbox unchecked.
C4_NoRetryOnRateLimit ==
    /\ rateSeen => (pc = "idle" /\ outcome = RateLimit)
    /\ outcome = RateLimit => (rateSeen /\ retries = effective - failed /\ retries >= 1)
    /\ attempts <= failed + 1

C4_Witness ==
    /\ rateSeen
    /\ outcome = RateLimit
    /\ op = "PollSubmitRateLimit"
    /\ failed = 1
    /\ retries = 2

\* C5: solve_recaptcha(retries=k) starts at most k attempts for every k >= 0,
\* and solve_recaptcha(retries=None) uses the constructor's value.
C5_ArgIsRetryCount ==
    /\ argRetries.given => attempts <= argRetries.val
    /\ (calls > 0 /\ ~argRetries.given) => effective = ctorRetries

\* C6: a call returns only if its last read of the checkbox was "checked",
\* and raises RecaptchaSolveError only if its last read, the one after the
\* retry loop, was "unchecked".
C6_OutcomeFollowsLastRead ==
    /\ outcome = "returned" => lastRead = "checked"
    /\ outcome = SolveError => lastRead = "unchecked"
    /\ (op = "FinalCheck" /\ lastRead = "unchecked") => outcome = SolveError

C6_Witness ==
    /\ outcome = "returned"
    /\ op = "FinalCheck"
    /\ lastRead = "checked"
    /\ failed = 1

\* C7 as stated: once the with block has been left the listener is not
\* registered, and solver.token is not changed by any response any more.
C7_TokenFrozenAfterExit ==
    [][~inWith' => /\ Handler \notin listeners'
                   /\ closeErr' = "none"
                   /\ ~inWith => token' = token]_vars

\* C7 as amended: once the with block has been left the listener is not
\* registered, and a response dispatched afterwards starts no handler and
\* leaves solver.token alone; solver.token changes after the exit only when a
\* handler that was waiting in response.text() since before the exit ends.
C7_ExitRemovesListener ==
    [][~inWith' => /\ Handler \notin listeners'
                   /\ closeErr' = "none"
                   /\ ~inWith => suspended' \sqsubseteq suspended
                   /\ (~inWith /\ op' \in {"Deliver", "DeliverUserverify"}) =>
                          (token' = token /\ suspended' = suspended)
                   /\ (~inWith /\ token' # token) =>
                          (op' = "HandlerReturns" /\ BagIn(lastResp', suspended))]_vars

C7_Witness ==
    /\ ~inWith
    /\ outcome = RateLimit
    /\ op = "Deliver"
    /\ lastResp = [url |-> UrlEnterprise, body |-> BodyLazy]
    /\ suspended = EmptyBag
    /\ token = None

\* One response was dispatched twice and a handler waits for each dispatch.
TwoHandlersWait ==
    CopiesIn([url |-> UrlEnterprise, body |-> BodyLazy], suspended) = 2

\* A handler that waited since before the exit ends after the call returned
\* the widget's token and the with block was left, and puts the value of its
\* own response in solver.token.
LateOverwrite ==
    /\ ~inWith
    /\ outcome = "returned"
    /\ result = Some(<<"03AGdBq">>)
    /\ op = "HandlerReturns"
    /\ lastResp = [url |-> UrlEnterprise, body |-> BodyLazy]
    /\ suspended = EmptyBag
    /\ token = Some(<<"a", ",", "b">>)

\* C8: close() raises nothing, leaves solver.token alone, removes nothing but
\* its own listener, changes nothing when that listener is not registered,
\* and a second close() changes nothing.
C8_CloseIdempotent ==
    [][op' = "Close" =>
          /\ closeErr' = "none"
          /\ token' = token
          /\ listeners' = listeners \ {Handler}
          /\ Handler \notin listeners => listeners' = listeners
          /\ close(listeners').listeners = listeners'
          /\ close(listeners').err = "none"]_vars

C8_Witness ==
    /\ op = "Close"
    /\ calls = 0
    /\ listeners = {UserHandler}
    /\ closeErr = "none"

\* The URLs above that contain /recaptcha/api2/userverify or
\* /recaptcha/enterprise/userverify, and the bodies above that hold a
\* "uvresp","<value>" pair, with the value of the first pair.
UserverifyUrls == {UrlApi2, UrlEnterprise, UrlProxied}

PairValue(body) ==
    CASE body = BodyToken -> <<"03AGdBq">>
      [] body = BodyEmptyToken -> <<>>
      [] body = BodyBrokenThenToken -> <<"09XyZ">>
      [] body = BodyLazy -> <<"a", ",", "b">>

BodiesWithPair == {BodyToken, BodyEmptyToken, BodyBrokenThenToken, BodyLazy}

\* C9: _extract_token goes on to read the body only for a userverify URL; it
\* sets token to the value of the uvresp pair of such a response, and leaves
\* token as it is for every other response; a token is never reset to None.
C9_TokenFrame ==
    [][/\ op' = "Deliver" =>
            /\ token' = token
            /\ suspended' = IF lastResp'.url \in UserverifyUrls
                            THEN suspended (+) SetToBag({lastResp'})
                            ELSE suspended
       /\ op' = "HandlerReturns" =>
            /\ lastResp'.url \in UserverifyUrls
            /\ IF lastResp'.body \in BodiesWithPair
               THEN token' = Some(PairValue(lastResp'.body))
               ELSE token' = token]_vars

C9_Witness ==
    /\ op = "HandlerReturns"
    /\ lastResp = [url |-> UrlApi2, body |-> BodyRresp]
    /\ token = Some(<<"09XyZ">>)

\* C10: "Get a new challenge" is clicked once, and one retry consumed, for
\* every attempt that left the checkbox unchecked, and never otherwise.
C10_ClicksEqualFailures ==
    /\ pc # "new_challenge" => newClicks = failed
    /\ pc = "new_challenge" => newClicks + 1 = failed
    /\ calls > 0 => retries = effective - newClicks

C10_Witness ==
    /\ pc = "idle"
    /\ outcome = SolveError
    /\ failed = 2
    /\ newClicks = 2
    /\ retries = 0

\* C11 as stated: no userverify response that a click of a call caused is
\* dispatched while the listener is not registered.
C11_NeverDeliveredUnregistered ==
    [][op' = "DeliverUserverify" => Handler \in listeners]_vars

\* C11 as amended: the listener is registered before the checkbox is clicked
\* and stays registered until close() is called, so a userverify response
\* that a click of the call caused is dispatched to the listener as long as
\* close() has not been called, in particular while the call runs.
C11_RegisteredUntilClose ==
    [][/\ op' \in {"ClickCheckbox", "ClickVerify"} => Handler \in listeners
       /\ pc' # "idle" => Handler \in listeners'
       /\ (Handler \in listeners /\ Handler \notin listeners') =>
              op' \in {"Close", "ExitWith"}
       /\ (op' = "DeliverUserverify" /\ pc # "idle") =>
              BagIn(UvResponse, suspended')]_vars

C11_Witness ==
    /\ op = "HandlerReturns"
    /\ lastResp = UvResponse
    /\ pc = "first_check"
    /\ checked
    /\ Handler \in listeners
    /\ token = Some(<<"03AGdBq">>)

\* C12: when the read of the checkbox after the first click gives "checked",
\* the call returns in that step: no attempt is started, nothing is clicked
\* and no retry is consumed.
C12_CheckedAtOnceReturns ==
    [][(pc = "first_check" /\ op' = "FirstCheck" /\ checked) =>
          /\ pc' = "idle"
          /\ outcome' = "returned"
          /\ result' = token
          /\ attempts' = 0
          /\ failed' = 0
          /\ newClicks' = 0
          /\ retries' = effective
          /\ pending' = pending
          /\ visible' = visible]_vars

C12_Witness ==
    /\ op = "FirstCheck"
    /\ lastRead = "checked"
    /\ outcome = "returned"
    /\ attempts = 0
    /\ effective = 2
    /\ retries = 2

----------------------------------------------------------------------------
(* Termination.  The caller is one thread of synchronous code: whenever it *)
(* can take a step that changes something it eventually takes it.  Nothing *)
(* is assumed of the page.                                                 *)

SolverStep ==
    \/ Locate
    \/ ClickCheckbox
    \/ FirstCheck
    \/ LoopHead
    \/ ReadAudioButton
    \/ ClickAudioButton
    \/ PollPressPlay
    \/ PollAudioRateLimit
    \/ PollAudioWait
    \/ ReadAudioUrl
    \/ ConvertAudio
    \/ FillAudioText
    \/ ClickVerify
    \/ PollMultiple
    \/ PollChecked
    \/ PollSubmitRateLimit
    \/ PollSubmitWait
    \/ CheckAfterSubmit
    \/ ClickNewChallenge
    \/ FinalCheck

\* The steps that bear on termination.  The responses of the page other than
\* the widget's own change nothing but self.token and are left out.
NextLive ==
    \/ \E arg \in Args : SolveCall(arg)
    \/ SolverStep
    \/ Close
    \/ ExitWith
    \/ PageResolve
    \/ DeliverUserverify
    \/ HandlerReturns(UvResponse)

LiveSpec == Init /\ [][NextLive]_vars /\ WF_vars(SolverStep)

AudioPolling == pc \in {"poll_audio", "poll_audio_limit", "poll_audio_wait"}

SubmitPolling ==
    pc \in {"poll_submit", "poll_submit_checked", "poll_submit_limit",
            "poll_submit_wait"}

\* While a polling loop runs, the page eventually shows one of the states
\* that loop waits for.
PageShowsAwaited ==
    /\ [](AudioPolling =>
            <>("press_play" \in visible \/ "try_again" \in visible))
    /\ [](SubmitPolling =>
            <>(checked \/ "multiple" \in visible \/ "try_again" \in visible))

\* Every call of solve_recaptcha ends: it returns or raises.
Terminates == (pc # "idle") ~> (pc = "idle")

\* C13: if the page eventually shows, to each polling loop, one of the states
\* the loop waits for, every call of solve_recaptcha ends.
C13_TerminatesIfPageAnswers == PageShowsAwaited => Terminates

C13_Witness ==
    /\ pc = "idle"
    /\ outcome = "returned"
    /\ op = "FinalCheck"
    /\ attempts = 2
    /\ failed = 1
    /\ token.some

\* A call that polls with nothing left for the page to resolve: the audio
\* button appeared after line 111 had found it not visible, and no text the
\* loop of lines 114-121 waits for will appear.
PollsForever ==
    /\ AudioPolling
    /\ op = "PollAudioWait"
    /\ pending = "none"
    /\ inflight = 0
    /\ visible = {"audio_button"}

====
